---- MODULE Spec2Model ----
(***************************************************************************)
(* Model of the collaborative-canvas server: the room manager (rooms.js)   *)
(* and the WebSocket protocol handler (server.js).  Node runs every event  *)
(* handler to completion, so each handler is one atomic action; messages   *)
(* of different connections are handled in any order.                      *)
(***************************************************************************)
EXTENDS Integers, Sequences, FiniteSets, TLC

(* ---------------------------- bounds and inputs ------------------------ *)

\* how many times pushOp may run (caps the op log and the uuid counter)
MaxCommits == 2

\* the WebSocket connections the server accepts, each one ws object
Clients == {"c1", "c2", "c3"}

\* the room of a connection that names none (searchParams.get('room') || 'default')
DefaultRoom == "default"

\* room names a connection may ask for
RoomIds == {DefaultRoom, "r1"}

\* `null` passed as exceptWs / no client
NoClient == "null"

\* a falsy or absent opId (op.opId || uuidv4())
NoId == 0

\* a falsy or absent ts (op.ts || Date.now())
NoTs == 0

\* an absent type (!op.type)
NoType == "none"

\* opIds a client may put into an op or a stroke fragment
ClientOpIds == {1, 2}

\* the op values a client may send as payload.op:
\*   obj    - the JSON value is an object (property writes stick); a primitive
\*            such as "x" or 7 takes the writes of pushOp silently and keeps none
\*   geom   - the geometry fields of the kind (points, or x/y/w/h ...) are present
\*   userId - the author the client names (NoClient: the field is absent)
OpInputs ==
  { [obj |-> TRUE, opId |-> 1, type |-> "stroke", geom |-> TRUE, ts |-> 1, userId |-> NoClient],
    [obj |-> TRUE, opId |-> 2, type |-> "shape", geom |-> FALSE, ts |-> NoTs, userId |-> NoClient],
    [obj |-> TRUE, opId |-> 1, type |-> "bogus", geom |-> TRUE, ts |-> NoTs, userId |-> NoClient],
    [obj |-> TRUE, opId |-> NoId, type |-> NoType, geom |-> TRUE, ts |-> NoTs, userId |-> NoClient],
    [obj |-> FALSE, opId |-> NoId, type |-> NoType, geom |-> FALSE, ts |-> NoTs, userId |-> NoClient] }

\* the two kinds of operation the protocol knows
RecognizedTypes == {"stroke", "shape"}

\* payloads of a stroke-part message
StrokeParts == [opId : ClientOpIds, finalize : {FALSE}]

\* an absent username / color (meta.username || ..., payload.color || ...)
NoName == ""
NoColor == ""

\* the username and color of a connection that gives none
DefaultName == "Anon"
DefaultColor == "#000000"

\* the username / color pairs a client may put into its connection URL or into
\* the payload of a meta message, each of the two present or absent
MetaInputs == [username : {NoName, "u1"}, color : {NoColor, "red"}]

\* a connection URL without username and color
NoMeta == [username |-> NoName, color |-> NoColor]

(* ------------------------------- state -------------------------------- *)

VARIABLES
  rooms,       \* the room manager's Map: room id -> room object, or <<>> for none
  readyState,  \* ws.readyState of every connection (CLOSED: no live socket)
  roomOf,      \* the room a connection was attached to (closure of the handler)
  inbox,       \* the message of a connection that is on its way to the server
  commits,     \* number of pushOp calls so far (uuidv4 and the commit serial)
  now,         \* Date.now()
  sent,        \* what the last handler sent: connection -> messages, in order
  lastMsg,     \* (network view) the message the server handled last
  roomBefore,  \* (network view) the room as it was before that message
  signals,     \* (room view) transport events seen on a socket that is going down
  profile,     \* client.userId, client.username and client.color of every connection
  appliedOps,  \* (canvas view) the list of ops a client keeps of what the server sent it
  currentStroke  \* (canvas view) the stroke a client is drawing, <<>> when it draws none

vars == <<rooms, readyState, roomOf, inbox, commits, now, sent, lastMsg, roomBefore, signals,
          profile, appliedOps, currentStroke>>

Last(s) == s[Len(s)]
Front(s) == SubSeq(s, 1, Len(s) - 1)

\* createRoom(id)
createRoom(id) == [id |-> id, clients |-> {}, opLog |-> <<>>, undoneStack |-> <<>>]

\* rooms.has(roomId)
HasRoom(r) == rooms[r] # <<>>

\* getOrCreate that stores a new room whether or not the name has one
getOrCreate_fresh(r) == [rooms EXCEPT ![r] = <<createRoom(r)>>]

\* getOrCreate(roomId): the Map after the call
getOrCreate(r) == IF ~HasRoom(r) THEN [rooms EXCEPT ![r] = <<createRoom(r)>>] ELSE rooms

\* the room object stored under r
Room(r) == rooms[r][1]

NoSend == [c \in Clients |-> <<>>]

\* broadcast that gives up as soon as it meets a member whose socket is not open
broadcast_abort(roomObj, msg, exceptWs) ==
  [c \in Clients |->
     IF c \in roomObj.clients /\ ~(exceptWs # NoClient /\ c = exceptWs)
        /\ \A x \in roomObj.clients : readyState[x] = "OPEN"
     THEN <<msg>> ELSE <<>>]

\* broadcast that goes through the sockets of every room
broadcast_allRooms(roomObj, msg, exceptWs) ==
  [c \in Clients |->
     IF ~(exceptWs # NoClient /\ c = exceptWs) /\ readyState[c] = "OPEN"
     THEN <<msg>> ELSE <<>>]

\* broadcast(roomObj, msg, exceptWs): what each connection is sent
broadcast(roomObj, msg, exceptWs) ==
  [c \in Clients |->
     IF c \in roomObj.clients /\ ~(exceptWs # NoClient /\ c = exceptWs)
        /\ readyState[c] = "OPEN"
     THEN <<msg>> ELSE <<>>]

\* two rounds of sending, one after the other
Then(s1, s2) == [c \in Clients |-> s1[c] \o s2[c]]

\* uuidv4(): a value no earlier call returned and no client id equals
uuidv4 == -(commits + 1)

NoEvent == [type |-> "none", client |-> NoClient, room |-> DefaultRoom, ret |-> <<>>,
            sentAt |-> 0, after |-> "none", undos |-> 0, redos |-> 0, base |-> <<>>]

Init ==
  /\ rooms = [r \in RoomIds |-> <<>>]
  /\ readyState = [c \in Clients |-> "CLOSED"]
  /\ roomOf = [c \in Clients |-> ""]
  /\ inbox = [c \in Clients |-> <<>>]
  /\ commits = 0
  /\ now = 1
  /\ sent = NoSend
  /\ lastMsg = NoEvent
  /\ roomBefore = <<>>
  /\ signals = [c \in Clients |-> 0]
  /\ profile = [c \in Clients |->
                  [userId |-> c, username |-> DefaultName, color |-> DefaultColor]]
  /\ appliedOps = [c \in Clients |-> <<>>]
  /\ currentStroke = [c \in Clients |-> <<>>]

(* --------------------------- room operations -------------------------- *)

\* userList(): one entry per member (the array, indexed here by the member's
\* socket), with the userId, username and color its client object holds
\* (users: these fields of all client objects)
userList(roomObj, users) ==
  [c \in roomObj.clients |->
     [userId |-> users[c].userId, username |-> users[c].username, color |-> users[c].color]]

\* getState(): a copy of the op log
getState(roomObj) == roomObj.opLog

\* join that serializes the user list before it adds the client
join_staleList(roomObj, client, users) ==
  LET room1 == [roomObj EXCEPT !.clients = @ \cup {client}]
      txt == [type |-> "user-list", payload |-> userList(roomObj, users)]
  IN [room |-> room1,
      sends |-> [c \in Clients |->
                   IF c \in room1.clients /\ (c = client \/ readyState[c] = "OPEN")
                   THEN <<txt>> ELSE <<>>]]

\* join(client): the room after the call and what its loop sends; the joining
\* connection is open, the others are read as they are
join(roomObj, client, users) ==
  LET room1 == [roomObj EXCEPT !.clients = @ \cup {client}]
      txt == [type |-> "user-list", payload |-> userList(room1, users)]
  IN [room |-> room1,
      sends |-> [c \in Clients |->
                   IF c \in room1.clients /\ (c = client \/ readyState[c] = "OPEN")
                   THEN <<txt>> ELSE <<>>]]

\* leave that also takes the ops the leaving client authored out of the log
leave_purge(roomObj, client) ==
  [roomObj EXCEPT !.clients = @ \ {client},
                  !.opLog = SelectSeq(@, LAMBDA op : op.userId # client)]

\* leave that keeps the client in the set
leave_keeps(roomObj, client) == roomObj

\* leave(client)
leave(roomObj, client) == [roomObj EXCEPT !.clients = @ \ {client}]

\* applyPartialStroke that stores the fragment in the op log
applyPartialStroke_persist(roomObj, part, client) ==
  [roomObj EXCEPT !.opLog = Append(@, part)]

\* applyPartialStroke(part, client): a no-op on the server
applyPartialStroke(roomObj, part, client) == roomObj

\* the writes of pushOp to the op: opId, ts and type are filled in when they
\* are falsy; the writes stick only on an object
Finalized(op) ==
  IF op.obj
  THEN [op EXCEPT !.opId = IF @ = NoId THEN uuidv4 ELSE @,
                  !.ts = IF @ = NoTs THEN now ELSE @,
                  !.type = IF @ = NoType THEN "stroke" ELSE @]
  ELSE op

\* pushOp that keeps the redo history
pushOp_keepsRedo(roomObj, op, client) ==
  [room |-> [roomObj EXCEPT !.opLog = Append(@, Finalized(op))], op |-> Finalized(op)]

\* pushOp that writes over the last slot it saw instead of growing the log
pushOp_overwrite(roomObj, op, client) ==
  [room |-> [roomObj EXCEPT
               !.opLog = IF @ = <<>> THEN <<Finalized(op)>>
                         ELSE Append(Front(@), Finalized(op)),
               !.undoneStack = <<>>],
   op |-> Finalized(op)]

\* pushOp that puts the op at the head of the log (unshift)
pushOp_unshift(roomObj, op, client) ==
  [room |-> [roomObj EXCEPT !.opLog = <<Finalized(op)>> \o @, !.undoneStack = <<>>],
   op |-> Finalized(op)]

\* pushOp(op, client): finalizes the op, appends it and resets the redo stack;
\* yields the room after the call and the op as it is then
pushOp(roomObj, op, client) ==
  [room |-> [roomObj EXCEPT !.opLog = Append(@, Finalized(op)), !.undoneStack = <<>>],
   op |-> Finalized(op)]

\* undoLast that takes the oldest op (shift) instead of the newest
undoLast_shift(roomObj) ==
  IF Len(roomObj.opLog) = 0 THEN [room |-> roomObj, ret |-> <<>>]
  ELSE LET last == Head(roomObj.opLog)
       IN [room |-> [roomObj EXCEPT !.opLog = Tail(@),
                                    !.undoneStack = Append(@, last)],
           ret |-> <<[targetOpId |-> last.opId, ts |-> now]>>]

\* undoLast that names the oldest op in its payload while it pops the newest
undoLast_firstId(roomObj) ==
  IF Len(roomObj.opLog) = 0 THEN [room |-> roomObj, ret |-> <<>>]
  ELSE LET last == Last(roomObj.opLog)
       IN [room |-> [roomObj EXCEPT !.opLog = Front(@),
                                    !.undoneStack = Append(@, last)],
           ret |-> <<[targetOpId |-> Head(roomObj.opLog).opId, ts |-> now]>>]

\* undoLast without the length test: on an empty log pop() yields undefined,
\* which lands on the redo stack
undoLast_noGuard(roomObj) ==
  IF Len(roomObj.opLog) = 0
  THEN [room |-> [roomObj EXCEPT !.undoneStack =
                          Append(@, [obj |-> FALSE, opId |-> NoId, type |-> NoType,
                                     geom |-> FALSE, ts |-> NoTs, userId |-> NoClient,
                                     n |-> 0, at |-> 0])],
        ret |-> <<>>]
  ELSE LET last == Last(roomObj.opLog)
       IN [room |-> [roomObj EXCEPT !.opLog = Front(@),
                                    !.undoneStack = Append(@, last)],
           ret |-> <<[targetOpId |-> last.opId, ts |-> now]>>]

\* undoLast(): the room after the call and the returned payload (<<>> is null)
undoLast(roomObj) ==
  IF Len(roomObj.opLog) = 0 THEN [room |-> roomObj, ret |-> <<>>]
  ELSE LET last == Last(roomObj.opLog)
       IN [room |-> [roomObj EXCEPT !.opLog = Front(@),
                                    !.undoneStack = Append(@, last)],
           ret |-> <<[targetOpId |-> last.opId, ts |-> now]>>]

\* redoLast that puts the op back at the head of the log
redoLast_front(roomObj) ==
  IF Len(roomObj.undoneStack) = 0 THEN [room |-> roomObj, ret |-> <<>>]
  ELSE LET op == Last(roomObj.undoneStack)
       IN [room |-> [roomObj EXCEPT !.undoneStack = Front(@),
                                    !.opLog = <<op>> \o @],
           ret |-> <<[stroke |-> op, ts |-> now]>>]

\* redoLast that empties the redo stack once it has taken its top
redoLast_clears(roomObj) ==
  IF Len(roomObj.undoneStack) = 0 THEN [room |-> roomObj, ret |-> <<>>]
  ELSE LET op == Last(roomObj.undoneStack)
       IN [room |-> [roomObj EXCEPT !.undoneStack = <<>>,
                                    !.opLog = Append(@, op)],
           ret |-> <<[stroke |-> op, ts |-> now]>>]

\* redoLast that appends the top of the redo stack to the log and leaves it
\* on the stack
redoLast_keeps(roomObj) ==
  IF Len(roomObj.undoneStack) = 0 THEN [room |-> roomObj, ret |-> <<>>]
  ELSE LET op == Last(roomObj.undoneStack)
       IN [room |-> [roomObj EXCEPT !.opLog = Append(@, op)],
           ret |-> <<[stroke |-> op, ts |-> now]>>]

\* redoLast(): the room after the call and the returned payload (<<>> is null)
redoLast(roomObj) ==
  IF Len(roomObj.undoneStack) = 0 THEN [room |-> roomObj, ret |-> <<>>]
  ELSE LET op == Last(roomObj.undoneStack)
       IN [room |-> [roomObj EXCEPT !.undoneStack = Front(@),
                                    !.opLog = Append(@, op)],
           ret |-> <<[stroke |-> op, ts |-> now]>>]

(* ------------------------- connection life cycle ----------------------- *)

\* wss.on('connection'): a new socket is attached to room r with the username
\* and color of its URL (meta) and the id that 's_' + Math.random()... comes to
\* (id), joins the room, and is sent the user list and the state
connection(c, r, meta, id) ==
  /\ readyState[c] = "CLOSED"
  /\ profile' = [profile EXCEPT ![c] =
                   [userId |-> id,
                    username |-> IF meta.username = NoName THEN DefaultName ELSE meta.username,
                    color |-> IF meta.color = NoColor THEN DefaultColor ELSE meta.color]]
  /\ LET rooms1 == getOrCreate(r)
         j == join(rooms1[r][1], c, profile')
     IN /\ rooms' = [rooms1 EXCEPT ![r] = <<j.room>>]
        /\ sent' = Then(j.sends,
                        [x \in Clients |->
                           IF x = c
                           THEN << [type |-> "user-list", payload |-> userList(j.room, profile')],
                                   [type |-> "state", payload |-> getState(j.room)] >>
                           ELSE <<>>])
  /\ readyState' = [readyState EXCEPT ![c] = "OPEN"]
  /\ roomOf' = [roomOf EXCEPT ![c] = r]
  /\ signals' = [signals EXCEPT ![c] = 0]
  /\ UNCHANGED <<inbox, commits, now>>

\* a connection whose random id is one no other connection draws
ConnectAs(c, r, meta) ==
  /\ connection(c, r, meta, c)
  /\ UNCHANGED <<lastMsg, roomBefore, appliedOps, currentStroke>>

\* a connection whose URL names a room and nothing else
Connect(c, r) == ConnectAs(c, r, NoMeta)

\* the transport of an open connection starts to go down: readyState leaves
\* OPEN before the 'close' event is emitted
Disconnect(c) ==
  /\ readyState[c] = "OPEN"
  /\ readyState' = [readyState EXCEPT ![c] = "CLOSING"]
  /\ UNCHANGED <<rooms, roomOf, inbox, commits, now, sent, lastMsg, roomBefore, signals,
                 profile, appliedOps, currentStroke>>

\* client.on('close'): leave, then the user list and the user-left notice
onClose(c) ==
  /\ readyState[c] = "CLOSING"
  /\ LET r == roomOf[c]
         room1 == leave(Room(r), c)
     IN /\ rooms' = [rooms EXCEPT ![r] = <<room1>>]
        /\ readyState' = [readyState EXCEPT ![c] = "CLOSED"]
        /\ sent' = Then(broadcast(room1, [type |-> "user-list", payload |-> userList(room1, profile)], NoClient),
                        broadcast(room1, [type |-> "user-left",
                                          payload |-> [userId |-> profile[c].userId]], NoClient))
  /\ inbox' = [inbox EXCEPT ![c] = <<>>]
  /\ roomOf' = [roomOf EXCEPT ![c] = ""]
  /\ UNCHANGED <<commits, now, signals, profile>>

\* the 'close' event of a socket that went down
Close(c) ==
  /\ onClose(c)
  /\ UNCHANGED <<lastMsg, roomBefore, appliedOps, currentStroke>>

(* ------------------------------ handleMessage -------------------------- *)

\* a message as a client sends it: payload.op and the payload of a stroke-part
\* or meta message (part) are sequences of at most one element (<<>>: absent); sentAt remembers how many
\* commits the server had made when the message was sent
Message(type, op, part) == [type |-> type, op |-> op, part |-> part, sentAt |-> commits]

\* the socket of c can still emit 'message'
Attached(c) == readyState[c] \in {"OPEN", "CLOSING"}

\* the committed op is broadcast with its origin excluded
OpExcept_origin(client) == client

\* third argument of the broadcast of a committed op (null: nobody is excluded)
OpExcept(client) == NoClient

\* the stroke fragment is broadcast with nobody excluded
StrokePartExcept_none(client) == NoClient

\* third argument of the broadcast of a stroke fragment (the origin)
StrokePartExcept(client) == client

\* the op of message m as pushOp receives it, with the serial of the commit
\* (n) and the server's clock at the commit (at) noted on it
\* (the object keeps every further property the client put on it)
Tagged(c, m) ==
  LET op == m.op[1]
      known == [obj |-> op.obj, opId |-> op.opId, type |-> op.type,
                geom |-> op.geom, ts |-> op.ts, userId |-> op.userId,
                n |-> commits + 1, at |-> now]
  IN IF DOMAIN op \subseteq DOMAIN known THEN known
     ELSE known @@ [k \in DOMAIN op \ DOMAIN known |-> op[k]]

\* the 'op' message that announces a committed op
OpMsg(op) == [type |-> "op", payload |-> [op |-> op]]

\* the two messages that announce an undo
UndoMsg(info) == [type |-> "undo", payload |-> info]
UndoWrapper(info) ==
  [type |-> "op",
   payload |-> [op |-> [type |-> "undo", targetOpId |-> info.targetOpId, ts |-> info.ts]]]

\* the two messages that announce a redo
RedoMsg(info) == [type |-> "redo", payload |-> info]
RedoWrapper(info) ==
  [type |-> "op",
   payload |-> [op |-> [type |-> "redo", stroke |-> info.stroke, ts |-> info.ts]]]

\* an op handler whose pushOp appends what it was given before it reads it: a
\* missing op lands in the log as undefined, and only then the handler throws
handleOp_lateThrow(c, m) ==
  LET r == roomOf[c]
  IN IF m.op = <<>>
     THEN /\ rooms' = [rooms EXCEPT ![r] =
                         <<[Room(r) EXCEPT !.opLog =
                              Append(@, [obj |-> FALSE, opId |-> NoId, type |-> NoType,
                                         geom |-> FALSE, ts |-> NoTs, userId |-> NoClient,
                                         n |-> 0, at |-> 0])]>>]
          /\ sent' = NoSend
          /\ UNCHANGED commits
     ELSE LET p == pushOp(Room(r), Tagged(c, m), c)
          IN /\ rooms' = [rooms EXCEPT ![r] = <<p.room>>]
             /\ commits' = commits + 1
             /\ sent' = broadcast(p.room, OpMsg(p.op), OpExcept(c))

\* type === 'op': pushOp, then the op goes to everyone.  Without payload.op the
\* first property read in pushOp throws, and the caller's catch drops the message
handleOp(c, m) ==
  LET r == roomOf[c]
  IN IF m.op = <<>>
     THEN /\ sent' = NoSend
          /\ UNCHANGED <<rooms, commits>>
     ELSE LET p == pushOp(Room(r), Tagged(c, m), c)
          IN /\ rooms' = [rooms EXCEPT ![r] = <<p.room>>]
             /\ commits' = commits + 1
             /\ sent' = broadcast(p.room, OpMsg(p.op), OpExcept(c))

\* type === 'undo': undoLast, then an 'undo' event and an 'op' wrapper to everyone
handleUndo(c, m) ==
  /\ LET r == roomOf[c]
         u == undoLast(Room(r))
     IN /\ rooms' = [rooms EXCEPT ![r] = <<u.room>>]
        /\ sent' = IF u.ret # <<>>
                   THEN Then(broadcast(u.room, UndoMsg(u.ret[1]), NoClient),
                             broadcast(u.room, UndoWrapper(u.ret[1]), NoClient))
                   ELSE NoSend
  /\ UNCHANGED commits

\* a redo handler that applies redoLast once for each of its two messages
handleRedo_perMessage(c, m) ==
  /\ LET r == roomOf[c]
         u == redoLast(Room(r))
         v == redoLast(u.room)
     IN /\ rooms' = [rooms EXCEPT ![r] = <<v.room>>]
        /\ sent' = IF u.ret # <<>>
                   THEN Then(broadcast(u.room, RedoMsg(u.ret[1]), NoClient),
                             broadcast(u.room, RedoWrapper(u.ret[1]), NoClient))
                   ELSE NoSend
  /\ UNCHANGED commits

\* type === 'redo': redoLast, then a 'redo' event and an 'op' wrapper to everyone
handleRedo(c, m) ==
  /\ LET r == roomOf[c]
         u == redoLast(Room(r))
     IN /\ rooms' = [rooms EXCEPT ![r] = <<u.room>>]
        /\ sent' = IF u.ret # <<>>
                   THEN Then(broadcast(u.room, RedoMsg(u.ret[1]), NoClient),
                             broadcast(u.room, RedoWrapper(u.ret[1]), NoClient))
                   ELSE NoSend
  /\ UNCHANGED commits

\* type === 'stroke-part': nothing is stored, the fragment goes to the others
\* (an absent payload is relayed as it is: JSON.stringify leaves the key out)
handleStrokePart(c, m) ==
  /\ LET r == roomOf[c]
         payload == m.part[1]
         room1 == applyPartialStroke(Room(r), payload, c)
     IN /\ rooms' = [rooms EXCEPT ![r] = <<room1>>]
        /\ sent' = broadcast(room1,
                             IF m.part = <<>> THEN [type |-> "stroke-part"]
                             ELSE [type |-> "stroke-part", payload |-> payload],
                             StrokePartExcept(c))
  /\ UNCHANGED commits

\* a meta handler that stores the payload's fields as they come, absent or not
Renamed_overwrite(c, payload) ==
  [profile EXCEPT ![c] =
     [userId |-> @.userId, username |-> payload.username, color |-> payload.color]]

\* what a meta payload makes of a client's username and color: a field that
\* is absent (or empty) keeps the stored value
Renamed(c, payload) ==
  [profile EXCEPT ![c] =
     [userId |-> @.userId,
      username |-> IF payload.username = NoName THEN @.username ELSE payload.username,
      color |-> IF payload.color = NoColor THEN @.color ELSE payload.color]]

\* the catch of client.on('message'): JSON.parse or the handler threw before
\* it wrote or sent anything; the error is logged and the message is gone
Dropped ==
  /\ sent' = NoSend
  /\ UNCHANGED <<rooms, commits, profile>>

\* type === 'meta': username and color are updated, the user list goes to
\* everyone.  Without a payload the first property read throws
handleMeta(c, m) ==
  IF m.part = <<>>
  THEN Dropped
  ELSE /\ profile' = Renamed(c, m.part[1])
       /\ sent' = broadcast(Room(roomOf[c]),
                            [type |-> "user-list",
                             payload |-> userList(Room(roomOf[c]), profile')],
                            NoClient)
       /\ UNCHANGED <<rooms, commits>>

\* client.send(text): the text reaches a socket that is open; on any other
\* socket nothing goes out (whether send returns or throws, the handler ends)
SendTo(c, msg) == [x \in Clients |-> IF x = c /\ readyState[c] = "OPEN" THEN <<msg>> ELSE <<>>]

\* a request-state handler that answers through the room's broadcast
StateReply_broadcast(c, msg) == broadcast(Room(roomOf[c]), msg, NoClient)

\* how the state snapshot is returned: to the requesting socket alone
StateReply(c, msg) == SendTo(c, msg)

\* type === 'request-state': the requester is sent a copy of the op log
handleRequestState(c, m) ==
  /\ sent' = StateReply(c, [type |-> "state", payload |-> getState(Room(roomOf[c]))])
  /\ UNCHANGED <<rooms, commits>>

\* a ping handler that echoes the server's clock instead of the client's ts
PongTs_server(payload) == now + 1

\* the ts the pong carries: the one of the ping
PongTs(payload) == payload.ts

\* type === 'ping': a pong with the ts of the ping goes back on the same
\* socket.  Without a payload the read of payload.ts throws
handlePing(c, m) ==
  IF m.part = <<>>
  THEN Dropped
  ELSE /\ sent' = SendTo(c, [type |-> "pong", payload |-> [ts |-> PongTs(m.part[1])]])
       /\ UNCHANGED <<rooms, commits>>

\* type === 'cursor': the position goes to the others with the sender's
\* userId, color and username.  Without a payload the read of payload.x throws
handleCursor(c, m) ==
  IF m.part = <<>>
  THEN Dropped
  ELSE /\ sent' = broadcast(Room(roomOf[c]),
                            [type |-> "cursor",
                             payload |-> [userId |-> profile[c].userId, x |-> m.part[1].x,
                                          y |-> m.part[1].y, color |-> profile[c].color,
                                          username |-> profile[c].username]],
                            c)
       /\ UNCHANGED <<rooms, commits>>

\* a handler that answers a type it does not know with an error message
handleUnknown_reply(c, m) ==
  /\ sent' = SendTo(c, [type |-> "error", payload |-> [type |-> m.type]])
  /\ UNCHANGED <<rooms, commits>>

\* any other type (or none): handleMessage falls off its end
handleUnknown(c, m) ==
  /\ sent' = NoSend
  /\ UNCHANGED <<rooms, commits>>

\* the types handleMessage has a branch for
KnownTypes == {"ping", "meta", "stroke-part", "op", "undo", "redo", "cursor", "request-state"}

\* handleMessage(roomObj, client, type, payload)
handleMessage(c, m) ==
  \/ m.type = "meta" /\ handleMeta(c, m)
  \/ /\ m.type # "meta"
     /\ UNCHANGED profile
     /\ \/ m.type = "ping" /\ handlePing(c, m)
        \/ m.type = "stroke-part" /\ handleStrokePart(c, m)
        \/ m.type = "op" /\ handleOp(c, m)
        \/ m.type = "undo" /\ handleUndo(c, m)
        \/ m.type = "redo" /\ handleRedo(c, m)
        \/ m.type = "cursor" /\ handleCursor(c, m)
        \/ m.type = "request-state" /\ handleRequestState(c, m)
        \/ m.type \notin KnownTypes /\ handleUnknown(c, m)

(* ----------------- the server, one message at a time ------------------- *)

\* client.on('message') of connection c receives a text frame: <<m>> is a
\* text that JSON.parse turns into the envelope m, <<>> one it rejects (or
\* the text null, which has no type and payload to take)
onMessage(c, frame) ==
  /\ Attached(c)
  /\ IF frame = <<>> THEN Dropped ELSE handleMessage(c, frame[1])
  /\ UNCHANGED <<readyState, roomOf, now, inbox, signals>>

\* the server handles message m of connection c (a commit while the log may
\* still grow)
Recv(c, m) ==
  /\ m.type = "op" => commits < MaxCommits
  /\ onMessage(c, <<m>>)
  /\ UNCHANGED <<lastMsg, roomBefore, appliedOps, currentStroke>>

\* the messages of the connections arrive in any order
RecvOp(c) ==
  \E op \in OpInputs \cup {<<>>} :
    Recv(c, Message("op", IF op = <<>> THEN <<>> ELSE <<op>>, <<>>))

RecvUndo(c) == Recv(c, Message("undo", <<>>, <<>>))

RecvRedo(c) == Recv(c, Message("redo", <<>>, <<>>))

RecvStrokePart(c) ==
  \E part \in StrokeParts : Recv(c, Message("stroke-part", <<>>, <<part>>))

Next ==
  \/ \E c \in Clients : Connect(c, DefaultRoom)
  \/ \E c \in Clients : Disconnect(c)
  \/ \E c \in Clients : Close(c)
  \/ \E c \in Clients : RecvOp(c)
  \/ \E c \in Clients : RecvUndo(c)
  \/ \E c \in Clients : RecvRedo(c)
  \/ \E c \in Clients : RecvStrokePart(c)

Spec == Init /\ [][Next]_vars

(* ------------- the network view: messages in flight -------------------- *)

\* the connections that send in the network view
Senders == {"c1", "c2"}

\* the ops connection c sends: objects of a known or absent kind that name c
\* as their author
NetOpInputs(c) ==
  {[op EXCEPT !.userId = c] :
     op \in {o \in OpInputs : o.obj /\ o.type \in RecognizedTypes \cup {NoType}}}

\* op messages on their way to the server
OpsInFlight == Cardinality({c \in Clients : inbox[c] # <<>> /\ inbox[c][1].type = "op"})

\* ws.send(type, payload) on the client: the message is on the wire
Post(c, m) ==
  /\ readyState[c] = "OPEN"
  /\ inbox[c] = <<>>
  /\ inbox' = [inbox EXCEPT ![c] = <<m>>]
  /\ UNCHANGED <<rooms, readyState, roomOf, commits, now, sent, lastMsg, roomBefore, signals,
                 profile, appliedOps, currentStroke>>

NetSendOp(c) ==
  /\ commits + OpsInFlight < MaxCommits
  /\ \E op \in NetOpInputs(c) : Post(c, Message("op", <<op>>, <<>>))

NetSendUndo(c) == Post(c, Message("undo", <<>>, <<>>))

NetSendRedo(c) == Post(c, Message("redo", <<>>, <<>>))

\* bookkeeping of a run of undos followed by redos: how many undos in a row
\* took effect (undos), how many redos in a row took effect after them (redos),
\* and the log as it was before the first of these undos (base).  Anything
\* else handled in between ends the run.
NoRun == [undos |-> 0, redos |-> 0, base |-> <<>>]

UndoRun(type, ok, log) ==
  IF type = "undo" /\ ok
  THEN IF lastMsg.undos > 0 /\ lastMsg.redos = 0
       THEN [undos |-> lastMsg.undos + 1, redos |-> 0, base |-> lastMsg.base]
       ELSE [undos |-> 1, redos |-> 0, base |-> log]
  ELSE IF type = "redo" /\ ok /\ lastMsg.redos < lastMsg.undos
       THEN [undos |-> lastMsg.undos, redos |-> lastMsg.redos + 1, base |-> lastMsg.base]
       ELSE NoRun

\* the server handles the message of c that was in flight; lastMsg and
\* roomBefore keep what it was and what the room looked like before
Deliver(c, type) ==
  /\ inbox[c] # <<>>
  /\ inbox[c][1].type = type
  /\ Attached(c)
  /\ LET m == inbox[c][1]
         r == roomOf[c]
         ret == IF type = "undo" THEN undoLast(Room(r)).ret
                ELSE IF type = "redo" THEN redoLast(Room(r)).ret
                ELSE <<>>
         run == UndoRun(type, ret # <<>>, Room(r).opLog)
     IN /\ \/ type = "op" /\ handleOp(c, m)
           \/ type = "undo" /\ handleUndo(c, m)
           \/ type = "redo" /\ handleRedo(c, m)
        /\ lastMsg' = [type |-> type, client |-> c, room |-> r, ret |-> ret,
                       sentAt |-> m.sentAt, after |-> lastMsg.type,
                       undos |-> run.undos, redos |-> run.redos, base |-> run.base]
        /\ roomBefore' = rooms[r]
  /\ inbox' = [inbox EXCEPT ![c] = <<>>]
  /\ UNCHANGED <<readyState, roomOf, now, signals, profile, appliedOps, currentStroke>>

NetOp(c) == Deliver(c, "op")

NetUndo(c) == Deliver(c, "undo")

NetRedo(c) == Deliver(c, "redo")

NetNext ==
  \/ \E c \in Senders : Connect(c, DefaultRoom)
  \/ \E c \in Senders : NetSendOp(c)
  \/ \E c \in Senders : NetSendUndo(c)
  \/ \E c \in Senders : NetSendRedo(c)
  \/ \E c \in Senders : NetOp(c)
  \/ \E c \in Senders : NetUndo(c)
  \/ \E c \in Senders : NetRedo(c)

SpecNet == Init /\ [][NetNext]_vars

(* ------------- the room view: presence, two rooms, snapshots ----------- *)

\* how many further transport events ('end', 'error') a closing socket may see
MaxSignals == 1

\* the op the sessions of the room view commit
RoomOpInputs == {op \in OpInputs : op.opId = 1 /\ op.type = "stroke"}

\* a further transport event that runs the close handler by itself
SocketError_closes(c) ==
  /\ readyState[c] = "CLOSING"
  /\ signals[c] < MaxSignals
  /\ signals' = [signals EXCEPT ![c] = @ + 1]
  /\ LET r == roomOf[c]
         room1 == leave(Room(r), c)
     IN /\ rooms' = [rooms EXCEPT ![r] = <<room1>>]
        /\ sent' = Then(broadcast(room1, [type |-> "user-list", payload |-> userList(room1, profile)], NoClient),
                        broadcast(room1, [type |-> "user-left",
                                          payload |-> [userId |-> profile[c].userId]], NoClient))
  /\ UNCHANGED <<readyState, roomOf, inbox, commits, now, lastMsg, roomBefore, profile,
                 appliedOps, currentStroke>>

\* a socket that is already going down reports another transport event; the
\* ws library stays in CLOSING and emits nothing to the server's handlers
SocketError(c) ==
  /\ readyState[c] = "CLOSING"
  /\ signals[c] < MaxSignals
  /\ signals' = [signals EXCEPT ![c] = @ + 1]
  /\ UNCHANGED <<rooms, readyState, roomOf, inbox, commits, now, sent, lastMsg, roomBefore,
                 profile, appliedOps, currentStroke>>

RoomOp(c) == \E op \in RoomOpInputs : Recv(c, Message("op", <<op>>, <<>>))

RecvRequestState(c) == Recv(c, Message("request-state", <<>>, <<>>))

RoomNext ==
  \/ \E c \in Clients, r \in RoomIds : Connect(c, r)
  \/ \E c \in Clients : Disconnect(c)
  \/ \E c \in Clients : SocketError(c)
  \/ \E c \in Clients : Close(c)
  \/ \E c \in Clients : RoomOp(c)
  \/ \E c \in Clients : RecvRequestState(c)

SpecRoom == Init /\ [][RoomNext]_vars

(* ---------------- the presence view: names and colors ------------------ *)

RecvMeta(c) == \E payload \in MetaInputs : Recv(c, Message("meta", <<>>, <<payload>>))

MetaNext ==
  \/ \E c \in Clients, r \in RoomIds, meta \in MetaInputs : ConnectAs(c, r, meta)
  \/ \E c \in Clients : Disconnect(c)
  \/ \E c \in Clients : Close(c)
  \/ \E c \in Clients : RecvMeta(c)

SpecMeta == Init /\ [][MetaNext]_vars

(* ------------- the frame view: every kind of message ------------------- *)

\* the rooms a connection of the frame view may name: c3 keeps to a room of its
\* own, the others share the default room
FrameRooms(c) == IF c = "c3" THEN {"r1"} ELSE {DefaultRoom}

\* the op a session of the frame view commits: a stroke that names it as author
FrameOps(c) == {[op EXCEPT !.userId = c, !.ts = NoTs] : op \in RoomOpInputs}

\* payloads of a ping, a cursor and a meta message in the frame view
PingInputs == [ts : {7}]
CursorInputs == [x : {3}, y : {4}]
\* (c1 is the session that renames itself)
FrameMetaInputs(c) == IF c = "c1" THEN MetaInputs ELSE {}

\* types handleMessage has no branch for (NoType: the envelope has no type)
UnknownTypes == {"hello", NoType}

\* the kinds of frame of the frame view
FrameTypes == {"unparsable", "op", "undo", "redo", "stroke-part", "meta", "ping", "cursor",
               "request-state", "unknown"}

\* the text frames a connection may send, by the type of their envelope; each
\* kind comes with and without the payload it needs, "unparsable" is a text
\* JSON.parse rejects
FramesOf(c, type) ==
  IF type = "unparsable" THEN {<<>>}
  ELSE IF type = "op"
  THEN {<<Message("op", <<op>>, <<>>)>> : op \in FrameOps(c)} \cup {<<Message("op", <<>>, <<>>)>>}
  ELSE IF type = "stroke-part"
  THEN {<<Message(type, <<>>, <<p>>)>> : p \in {q \in StrokeParts : q.opId = 1}}
       \cup {<<Message(type, <<>>, <<>>)>>}
  ELSE IF type = "meta"
  THEN {<<Message(type, <<>>, <<p>>)>> : p \in FrameMetaInputs(c)} \cup {<<Message(type, <<>>, <<>>)>>}
  ELSE IF type = "ping"
  THEN {<<Message(type, <<>>, <<p>>)>> : p \in PingInputs} \cup {<<Message(type, <<>>, <<>>)>>}
  ELSE IF type = "cursor"
  THEN {<<Message(type, <<>>, <<p>>)>> : p \in CursorInputs} \cup {<<Message(type, <<>>, <<>>)>>}
  ELSE IF type = "unknown"
  THEN {<<Message(t, <<>>, <<>>)>> : t \in UnknownTypes}
  ELSE {<<Message(type, <<>>, <<>>)>>}

\* the message handler throws on this frame: the text does not parse, or the
\* handler reads a property of a payload (or an op) that is not there
Throws(frame) ==
  \/ frame = <<>>
  \/ /\ frame # <<>>
     /\ \/ frame[1].type = "op" /\ frame[1].op = <<>>
        \/ frame[1].type \in {"meta", "ping", "cursor"} /\ frame[1].part = <<>>

\* the server handles a frame of c; lastMsg keeps its type, its sender, the
\* frame itself (ret) and the type of the frame handled before it (after)
FrameRecv(c, frame) ==
  /\ (frame # <<>> /\ frame[1].type = "op") => commits < MaxCommits
  /\ onMessage(c, frame)
  /\ lastMsg' = [NoEvent EXCEPT !.type = IF frame = <<>> THEN "unparsable" ELSE frame[1].type,
                                !.client = c, !.room = roomOf[c], !.ret = frame,
                                !.after = IF Throws(lastMsg.ret) /\ lastMsg.client = c
                                          THEN "dropped" ELSE "handled"]
  /\ UNCHANGED <<roomBefore, appliedOps, currentStroke>>

FrameKind(c, type) == \E frame \in FramesOf(c, type) : FrameRecv(c, frame)

FrameNext ==
  \/ \E c \in Clients, r \in RoomIds : r \in FrameRooms(c) /\ Connect(c, r)
  \/ \E c \in Clients : FrameKind(c, "unparsable")
  \/ \E c \in Clients : FrameKind(c, "op")
  \/ \E c \in Clients : FrameKind(c, "undo")
  \/ \E c \in Clients : FrameKind(c, "redo")
  \/ \E c \in Clients : FrameKind(c, "stroke-part")
  \/ \E c \in Clients : FrameKind(c, "meta")
  \/ \E c \in Clients : FrameKind(c, "ping")
  \/ \E c \in Clients : FrameKind(c, "cursor")
  \/ \E c \in Clients : FrameKind(c, "request-state")
  \/ \E c \in Clients : FrameKind(c, "unknown")

SpecFrame == Init /\ [][FrameNext]_vars

(* ------------- the life view: sessions come and go --------------------- *)

\* the messages of the life view: every type with the payload it needs (a
\* meta message carries a username and no color)
LifeRecv(c, type) ==
  \E frame \in {f \in FramesOf(c, type) :
                  /\ ~Throws(f)
                  /\ type = "stroke-part" => f[1].part # <<>>
                  /\ type = "meta" => f[1].part[1] = [username |-> "u1", color |-> NoColor]} :
    Recv(c, frame[1])

\* the types of message of the life view
LifeTypes == KnownTypes

LifeNext ==
  \/ \E c \in Clients, r \in RoomIds : r \in FrameRooms(c) /\ Connect(c, r)
  \/ \E c \in Clients : Disconnect(c)
  \/ \E c \in Clients : Close(c)
  \/ \E c \in Clients : LifeRecv(c, "op")
  \/ \E c \in Clients : LifeRecv(c, "undo")
  \/ \E c \in Clients : LifeRecv(c, "redo")
  \/ \E c \in Clients : LifeRecv(c, "stroke-part")
  \/ \E c \in Clients : LifeRecv(c, "meta")
  \/ \E c \in Clients : LifeRecv(c, "ping")
  \/ \E c \in Clients : LifeRecv(c, "cursor")
  \/ \E c \in Clients : LifeRecv(c, "request-state")

SpecLife == Init /\ [][LifeNext]_vars

(* ------------- the clock view: timestamps of the log ------------------- *)

\* how far the server's clock runs
MaxNow == 3

\* the ts a client puts into its op: none, or the reading of its own clock
ClientTs == {NoTs, 2}

\* the ops of the clock view: strokes of author c with these ts
ClockOpInputs(c) == {[op EXCEPT !.userId = c, !.ts = t] : op \in RoomOpInputs, t \in ClientTs}

\* Date.now() has moved on
Tick ==
  /\ now < MaxNow
  /\ now' = now + 1
  /\ UNCHANGED <<rooms, readyState, roomOf, inbox, commits, sent, lastMsg, roomBefore, signals,
                 profile, appliedOps, currentStroke>>

ClockOp(c) == \E op \in ClockOpInputs(c) : Recv(c, Message("op", <<op>>, <<>>))

ClockNext ==
  \/ \E c \in Senders : Connect(c, DefaultRoom)
  \/ Tick
  \/ \E c \in Senders : ClockOp(c)
  \/ \E c \in Senders : RecvUndo(c)
  \/ \E c \in Senders : RecvRedo(c)

SpecClock == Init /\ [][ClockNext]_vars

(* ------------- the id view: what Math.random() may yield -------------- *)

\* outcomes of 's_' + Math.random().toString(36).slice(2,9): any string of the
\* pool may come up at any connection, nothing keeps a draw from repeating
IdPool == {"s_a", "s_b"}

\* a connection with the id it happens to draw
ConnectDrawn(c, r) ==
  \E id \in IdPool :
    /\ connection(c, r, NoMeta, id)
    /\ UNCHANGED <<lastMsg, roomBefore, appliedOps, currentStroke>>

IdNext ==
  \/ \E c \in Clients, r \in RoomIds : ConnectDrawn(c, r)
  \/ \E c \in Clients : Disconnect(c)
  \/ \E c \in Clients : Close(c)
  \/ \E c \in Clients : LifeRecv(c, "cursor")

SpecIds == Init /\ [][IdNext]_vars

(* ------------- the canvas view: a client replays what it is sent ------- *)

\* how many commits the canvas view follows
MaxReplayCommits == 3

\* the ops of the canvas view: strokes of author c with an id of the client's
ReplayOpInputs(c) ==
  {[op EXCEPT !.opId = i, !.userId = c, !.ts = NoTs] : op \in RoomOpInputs, i \in ClientOpIds}

\* appliedOps.findIndex(o => o.opId === id) and splice(idx, 1): the first
\* entry with that id is taken out, the list stays as it is when there is none
RemoveById(list, id) ==
  LET hits == {i \in 1..Len(list) : list[i].opId = id}
  IN IF hits = {} THEN list
     ELSE LET idx == CHOOSE i \in hits : \A j \in hits : i <= j
          IN SubSeq(list, 1, idx - 1) \o SubSeq(list, idx + 1, Len(list))

\* ws.on('message') of the canvas for a state snapshot and for an 'op'
\* message: a snapshot replaces the list, a stroke or shape is appended, an
\* undo wrapper removes by targetOpId, a redo wrapper appends its stroke
Replay(list, msg) ==
  IF msg.type = "state" THEN msg.payload
  ELSE IF msg.type # "op" THEN list
  ELSE LET op == msg.payload.op
       IN IF op.type \in RecognizedTypes THEN Append(list, op)
          ELSE IF op.type = "undo" THEN RemoveById(list, op.targetOpId)
          ELSE IF op.type = "redo" THEN Append(list, op.stroke)
          ELSE list

\* the messages of one socket are handled in the order they were sent
RECURSIVE ReplayAll(_, _)
ReplayAll(list, msgs) ==
  IF msgs = <<>> THEN list ELSE ReplayAll(Replay(list, Head(msgs)), Tail(msgs))

\* a session joins and its canvas handles what the join sent
ReplayConnect(c) ==
  /\ connection(c, DefaultRoom, NoMeta, c)
  /\ appliedOps' = [x \in Clients |-> ReplayAll(appliedOps[x], sent'[x])]
  /\ UNCHANGED <<lastMsg, roomBefore, currentStroke>>

\* the server handles message m of c and every canvas handles what it was sent
ReplayRecv(c, m) ==
  /\ m.type = "op" => commits < MaxReplayCommits
  /\ onMessage(c, <<m>>)
  /\ appliedOps' = [x \in Clients |-> ReplayAll(appliedOps[x], sent'[x])]
  /\ UNCHANGED <<lastMsg, roomBefore, currentStroke>>

ReplayOp(c) == \E op \in ReplayOpInputs(c) : ReplayRecv(c, Message("op", <<op>>, <<>>))

ReplayUndo(c) == ReplayRecv(c, Message("undo", <<>>, <<>>))

ReplayRedo(c) == ReplayRecv(c, Message("redo", <<>>, <<>>))

ReplayNext ==
  \/ \E c \in Senders : ReplayConnect(c)
  \/ \E c \in Senders : ReplayOp(c)
  \/ \E c \in Senders : ReplayUndo(c)
  \/ \E c \in Senders : ReplayRedo(c)

SpecReplay == Init /\ [][ReplayNext]_vars

(* ------------- the notice view: ops that look like notices ------------- *)

\* the ops a session may put in an 'op' message here: a stroke of its own, an
\* object of kind 'undo' that names a target, an object of kind 'redo' that
\* carries a stroke
ForgeOpInputs(c) ==
  ReplayOpInputs(c)
    \cup {[obj |-> TRUE, opId |-> NoId, type |-> "undo", geom |-> FALSE, ts |-> NoTs,
            userId |-> c, targetOpId |-> i] : i \in ClientOpIds}
    \cup {[obj |-> TRUE, opId |-> NoId, type |-> "redo", geom |-> FALSE, ts |-> NoTs,
            userId |-> c, stroke |-> s] : s \in ReplayOpInputs(c)}

ForgeOp(c) == \E op \in ForgeOpInputs(c) : Recv(c, Message("op", <<op>>, <<>>))

ForgeNext ==
  \/ \E c \in Senders : Connect(c, DefaultRoom)
  \/ \E c \in Senders : ForgeOp(c)
  \/ \E c \in Senders : RecvUndo(c)
  \/ \E c \in Senders : RecvRedo(c)

SpecForge == Init /\ [][ForgeNext]_vars

(* ------------- the drawing view: the canvas of every client ------------ *)

\* how many points a stroke gets while it is drawn
MaxPoints == 2

\* the ids beginStroke may draw: 'op_' + Date.now().toString(36) + '_' +
\* Math.random().toString(36).slice(2,6)
CanvasIds == 1..MaxCommits

\* the ids some canvas, the server or a message on its way holds
UsedIds ==
  UNION {{appliedOps[c][i].opId : i \in 1..Len(appliedOps[c])} : c \in Clients}
    \cup UNION {{currentStroke[c][i].opId : i \in 1..Len(currentStroke[c])} : c \in Clients}
    \cup UNION {{IF inbox[c][i].op # <<>> THEN inbox[c][i].op[1].opId ELSE NoId :
                   i \in 1..Len(inbox[c])} : c \in Clients}
    \cup UNION {{rooms[r][1].opLog[i].opId : i \in 1..Len(rooms[r][1].opLog)}
                   \cup {rooms[r][1].undoneStack[i].opId : i \in 1..Len(rooms[r][1].undoneStack)} :
                 r \in {x \in RoomIds : HasRoom(x)}}

\* the strokes that are begun or on their way and not committed yet
Pending ==
  Cardinality({c \in Clients : currentStroke[c] # <<>>})
    + Cardinality({c \in Clients : \E i \in 1..Len(inbox[c]) : inbox[c][i].type = "op"})

\* WSClient.send(type, payload): dropped unless the socket is open; the
\* message waits in the connection's queue until the server handles it (a
\* client sends again when the server has handled what it sent before)
CanSend(c) == readyState[c] = "OPEN" /\ inbox[c] = <<>>
wsSend(c, msgs) == [inbox EXCEPT ![c] = @ \o msgs]

\* the frame of a step of the client that changes its canvas or its queue only
ClientStep ==
  UNCHANGED <<rooms, readyState, roomOf, commits, now, sent, lastMsg, roomBefore, signals,
              profile>>

\* beginStroke(pt): a stroke of this client with a new id and its first point
\* (the draws of the id that collide with no id in use)
beginStroke(c) ==
  /\ currentStroke[c] = <<>>
  /\ readyState[c] = "OPEN"
  /\ commits + Pending < MaxCommits
  /\ \E id \in CanvasIds \ UsedIds :
       currentStroke' =
         [currentStroke EXCEPT ![c] =
            <<[obj |-> TRUE, opId |-> id, type |-> "stroke", geom |-> TRUE, ts |-> now,
               userId |-> c, points |-> <<1>>]>>]
  /\ UNCHANGED <<inbox, appliedOps>>
  /\ ClientStep

\* pushPoint(pt): one more point on the stroke that is drawn
pushPoint(c) ==
  /\ currentStroke[c] # <<>>
  /\ readyState[c] = "OPEN"
  /\ Len(currentStroke[c][1].points) < MaxPoints
  /\ currentStroke' =
       [currentStroke EXCEPT ![c] = <<[@[1] EXCEPT !.points = Append(@, Len(@) + 1)]>>]
  /\ UNCHANGED <<inbox, appliedOps>>
  /\ ClientStep

\* the payload of sendBatch(finalize): the id, the author and all points so far
Fragment(stroke, finalize) ==
  [opId |-> stroke.opId, userId |-> stroke.userId, points |-> stroke.points,
   finalize |-> finalize]

\* sendBatch(false), every 40 ms while a stroke is drawn
sendBatch(c) ==
  /\ currentStroke[c] # <<>>
  /\ CanSend(c)
  /\ inbox' = wsSend(c, <<Message("stroke-part", <<>>, <<Fragment(currentStroke[c][1], FALSE)>>)>>)
  /\ UNCHANGED <<appliedOps, currentStroke>>
  /\ ClientStep

\* endStroke(): the stroke goes into the local list, the final fragment and
\* the op message are sent, no stroke is drawn any more
endStroke(c) ==
  /\ currentStroke[c] # <<>>
  /\ CanSend(c)
  /\ appliedOps' = [appliedOps EXCEPT ![c] = Append(@, currentStroke[c][1])]
  /\ inbox' = wsSend(c, <<Message("stroke-part", <<>>, <<Fragment(currentStroke[c][1], TRUE)>>),
                          Message("op", <<currentStroke[c][1]>>, <<>>)>>)
  /\ currentStroke' = [currentStroke EXCEPT ![c] = <<>>]
  /\ ClientStep

\* doUndo() and doRedo(): a request goes to the server
doUndo(c) ==
  /\ CanSend(c)
  /\ inbox' = wsSend(c, <<Message("undo", <<>>, <<>>)>>)
  /\ UNCHANGED <<appliedOps, currentStroke>>
  /\ ClientStep

doRedo(c) ==
  /\ CanSend(c)
  /\ inbox' = wsSend(c, <<Message("redo", <<>>, <<>>)>>)
  /\ UNCHANGED <<appliedOps, currentStroke>>
  /\ ClientStep

\* the first entry of the list with that id (0: none), appliedOps.find
FindById(list, id) ==
  LET hits == {i \in 1..Len(list) : list[i].opId = id}
  IN IF hits = {} THEN 0 ELSE CHOOSE i \in hits : \A j \in hits : i <= j

\* an applyRemotePartialStroke that adds the incoming points to the entry's
applyRemotePartialStroke_accumulate(list, part) ==
  IF part.opId = NoId THEN list
  ELSE LET idx == FindById(list, part.opId)
       IN IF idx = 0
          THEN Append(list, [opId |-> part.opId, type |-> "stroke", userId |-> part.userId,
                             points |-> part.points])
          ELSE [list EXCEPT ![idx] = [points |-> list[idx].points \o part.points] @@ @]

\* applyRemotePartialStroke(part): a fragment without id is ignored; the first
\* entry with the fragment's id, or a placeholder pushed when there is none,
\* gets the fragment's points in place of its own
applyRemotePartialStroke(list, part) ==
  IF part.opId = NoId THEN list
  ELSE LET idx == FindById(list, part.opId)
       IN IF idx = 0
          THEN Append(list, [opId |-> part.opId, type |-> "stroke", userId |-> part.userId,
                             points |-> part.points])
          ELSE IF "points" \in DOMAIN list[idx]
               THEN [list EXCEPT ![idx].points = part.points]
               ELSE [list EXCEPT ![idx] = [points |-> part.points] @@ @]

\* ws.on('message') of the canvas: a fragment is merged, an 'undo' event
\* removes by targetOpId, a 'redo' event appends its stroke, a snapshot and an
\* 'op' message as in Replay, anything else leaves the list alone
canvasOnMessage(list, msg) ==
  IF msg.type = "stroke-part"
  THEN IF "payload" \in DOMAIN msg THEN applyRemotePartialStroke(list, msg.payload) ELSE list
  ELSE IF msg.type = "undo" THEN RemoveById(list, msg.payload.targetOpId)
  ELSE IF msg.type = "redo" THEN Append(list, msg.payload.stroke)
  ELSE Replay(list, msg)

\* the messages of one socket are handled in the order they were sent
RECURSIVE canvasOnMessages(_, _)
canvasOnMessages(list, msgs) ==
  IF msgs = <<>> THEN list
  ELSE canvasOnMessages(canvasOnMessage(list, Head(msgs)), Tail(msgs))

\* every canvas handles what the server's handler sent it
Delivered == appliedOps' = [x \in Clients |-> canvasOnMessages(appliedOps[x], sent'[x])]

\* a client connects and its canvas handles what the join sent
CanvasConnect(c) ==
  /\ connection(c, DefaultRoom, NoMeta, c)
  /\ Delivered
  /\ UNCHANGED <<lastMsg, roomBefore, currentStroke>>

\* the server handles the oldest message of c that is on its way
CanvasServe(c) ==
  /\ inbox[c] # <<>>
  /\ Attached(c)
  /\ handleMessage(c, Head(inbox[c]))
  /\ inbox' = [inbox EXCEPT ![c] = Tail(@)]
  /\ Delivered
  /\ UNCHANGED <<readyState, roomOf, now, signals, lastMsg, roomBefore, currentStroke>>

CanvasNext ==
  \/ \E c \in Senders : CanvasConnect(c)
  \/ \E c \in Senders : beginStroke(c)
  \/ \E c \in Senders : sendBatch(c)
  \/ \E c \in Senders : endStroke(c)
  \/ \E c \in Senders : doUndo(c)
  \/ \E c \in Senders : doRedo(c)
  \/ \E c \in Senders : CanvasServe(c)
  \/ \E c \in Senders : Disconnect(c)
  \/ \E c \in Senders : Close(c)

SpecCanvas == Init /\ [][CanvasNext]_vars

\* the fragments alone: strokes are drawn point by point and the others'
\* canvases follow them
FragmentNext ==
  \/ \E c \in Senders : CanvasConnect(c)
  \/ \E c \in Senders : beginStroke(c)
  \/ \E c \in Senders : pushPoint(c)
  \/ \E c \in Senders : sendBatch(c)
  \/ \E c \in Senders : endStroke(c)
  \/ \E c \in Senders : CanvasServe(c)

SpecFragment == Init /\ [][FragmentNext]_vars

(* ------------------------------ properties ----------------------------- *)

\* the op log, the redo stack and the members of room r (empty before the room exists)
Log(r) == IF HasRoom(r) THEN Room(r).opLog ELSE <<>>
Stack(r) == IF HasRoom(r) THEN Room(r).undoneStack ELSE <<>>
Members(r) == IF HasRoom(r) THEN Room(r).clients ELSE {}

\* connection x is a member of room r with an open socket
OpenMember(x, r) == x \in Members(r) /\ readyState[x] = "OPEN"

\* C1: in every reachable state no two operations of a room's op log have the
\* same id, whatever op, undo and redo messages the sessions send.
UniqueOpIds ==
  \A r \in RoomIds :
    \A i, j \in 1..Len(Log(r)) : i # j => Log(r)[i].opId # Log(r)[j].opId

\* an op the protocol has to reject: its kind is not one of the two recognized
\* ones, or the geometry of its kind is missing
InvalidOp(op) == ~op.obj \/ op.type \notin RecognizedTypes \/ ~op.geom

\* C2: an op message whose op has an unrecognized kind or lacks its geometry is
\* rejected: the log and the redo stack stay as they are and nobody is sent anything.
InvalidOpRejected ==
  [][\A c \in Clients, op \in OpInputs :
       (InvalidOp(op) /\ Recv(c, Message("op", <<op>>, <<>>)))
         => (rooms' = rooms /\ sent' = NoSend)]_vars

\* the room of the network view
R == DefaultRoom

\* C3: every commit of a new operation leaves the redo stack empty, so a redo
\* handled right after a commit (also one that followed an undo) returns
\* nothing, leaves the log as it is and sends nothing.
CommitClearsRedo ==
  [][\A c \in Senders :
       /\ NetOp(c) => Stack(roomOf[c])' = <<>>
       /\ (lastMsg.type = "op" /\ NetRedo(c))
            => (lastMsg'.ret = <<>> /\ rooms' = rooms /\ sent' = NoSend)]_vars

\* C3 witness: op 1 was committed and undone, op 2 committed, and the redo
\* that came next found nothing to redo.
RedoAfterCommitSeen ==
  /\ lastMsg.type = "redo" /\ lastMsg.after = "op" /\ lastMsg.ret = <<>>
  /\ commits = 2 /\ Len(Log(R)) = 1 /\ Log(R)[1].n = 2
  /\ Stack(R) = <<>>

\* C4: after commits only (nothing on the redo stack), an undo followed by a
\* redo gives back the very log the commits had built, same content and order.
UndoRedoRoundTrip ==
  [][\A c \in Senders :
       (/\ lastMsg.type = "undo"
        /\ roomBefore # <<>> /\ roomBefore[1].undoneStack = <<>>
        /\ NetRedo(c))
       => Log(lastMsg.room)' = roomBefore[1].opLog]_vars

\* C4 witness: two commits, then an undo and a redo that both took effect.
RoundTripSeen ==
  /\ lastMsg.type = "redo" /\ lastMsg.after = "undo" /\ lastMsg.ret # <<>>
  /\ Len(Log(R)) >= 2 /\ Stack(R) = <<>>

\* C5: a room's log changes only by one element appended at its end (a commit
\* or a redo) or by its last element removed (an undo); nothing else is removed,
\* reordered or rewritten.
LogAppendOrPop ==
  [][\A r \in RoomIds :
       \/ Log(r)' = Log(r)
       \/ /\ Len(Log(r)') = Len(Log(r)) + 1
          /\ Front(Log(r)') = Log(r)
          /\ \E c \in Clients : RecvOp(c) \/ RecvRedo(c)
       \/ /\ Log(r) # <<>>
          /\ Log(r)' = Front(Log(r))
          /\ \E c \in Clients : RecvUndo(c)]_vars

\* C5 witness: an undo has just removed the last of two operations.
UndoPoppedSeen ==
  /\ Len(Log(R)) = 1 /\ Len(Stack(R)) = 1
  /\ \E c \in Clients :
       /\ Len(sent[c]) = 2
       /\ sent[c][1] = UndoMsg([targetOpId |-> Last(Stack(R)).opId, ts |-> now])

\* C6: an undo removes the operation that is last in the log when the server
\* handles the undo, and both removal notices carry that operation's id,
\* whoever sent the undo, whoever authored the operation and whatever was
\* committed after the undo was sent.
UndoTargetsLast ==
  [][\A c \in Senders :
       (NetUndo(c) /\ Log(roomOf[c]) # <<>>)
       => LET r == roomOf[c]
              target == Last(Log(r))
          IN /\ Log(r)' = Front(Log(r))
             /\ Stack(r)' = Append(Stack(r), target)
             /\ lastMsg'.ret # <<>>
             /\ lastMsg'.ret[1].targetOpId = target.opId
             /\ \A x \in Clients :
                  OpenMember(x, r) =>
                    /\ Len(sent'[x]) = 2
                    /\ sent'[x][1].type = "undo"
                    /\ sent'[x][1].payload.targetOpId = target.opId
                    /\ sent'[x][2].type = "op"
                    /\ sent'[x][2].payload.op.type = "undo"
                    /\ sent'[x][2].payload.op.targetOpId = target.opId]_vars

\* C6 witness: an undo removed an operation of another session that was
\* committed after the undo had been sent, while an older operation stays.
LateUndoSeen ==
  /\ lastMsg.type = "undo" /\ lastMsg.ret # <<>>
  /\ Stack(R) # <<>>
  /\ Last(Stack(R)).userId # lastMsg.client
  /\ Last(Stack(R)).n > lastMsg.sentAt
  /\ Len(Log(R)) >= 1

\* C7: when two sessions commit operations with distinct ids through op
\* messages handled one after the other, the log is the log before them
\* followed by the first and then the second operation: each is there exactly
\* once, none is lost.
CommitsBothKept ==
  [][\A c \in Senders :
       (/\ lastMsg.type = "op" /\ lastMsg.client # c
        /\ NetOp(c)
        /\ Last(Log(R)).opId # Last(Log(R)').opId)
       => LET first == Last(Log(R))
              second == Last(Log(R)')
          IN /\ Log(R)' = roomBefore[1].opLog \o <<first, second>>
             /\ first.obj => first.userId = lastMsg.client
             /\ second.obj => second.userId = c
             /\ second.opId \in {inbox[c][1].op[1].opId, uuidv4}
             /\ Cardinality({i \in 1..Len(Log(R)') : Log(R)'[i] = first}) = 1
             /\ Cardinality({i \in 1..Len(Log(R)') : Log(R)'[i] = second}) = 1]_vars

\* C7 witness: two sessions' commits were handled back to back, and the second
\* one had been sent before the first was committed (both were in flight).
ConcurrentCommitsSeen ==
  /\ lastMsg.type = "op" /\ lastMsg.after = "op"
  /\ Len(Log(R)) >= 2
  /\ Log(R)[Len(Log(R))].userId # Log(R)[Len(Log(R)) - 1].userId
  /\ Log(R)[Len(Log(R))].opId # Log(R)[Len(Log(R)) - 1].opId
  /\ lastMsg.sentAt < Log(R)[Len(Log(R)) - 1].n

\* C8: the log is in the order in which the server handled the commits: an
\* operation committed earlier stands before every operation committed later.
LogInCommitOrder ==
  \A r \in RoomIds :
    \A i, j \in 1..Len(Log(r)) : i < j => Log(r)[i].n < Log(r)[j].n

\* C8 witness: the second operation of the log was sent before any commit had
\* been handled, yet it stands behind an operation of another session.
OvertakenCommitSeen ==
  /\ lastMsg.type = "op" /\ lastMsg.sentAt = 0
  /\ Len(Log(R)) = 2
  /\ Log(R)[2].userId = lastMsg.client
  /\ Log(R)[1].userId # lastMsg.client

\* C9: when an op is committed, every member with an open socket is sent the op
\* message with the finalized operation, the author included.
OpReachesAllOpen ==
  [][\A c \in Clients, op \in OpInputs :
       (commits' = commits + 1 /\ Recv(c, Message("op", <<op>>, <<>>)))
       => LET r == roomOf[c]
              fin == Last(Log(r)')
          IN /\ fin.n = commits + 1
             /\ \A x \in Clients : OpenMember(x, r) => sent'[x] = <<OpMsg(fin)>>
             /\ readyState[c] = "OPEN" => sent'[c] = <<OpMsg(fin)>>]_vars

\* C9 witness: three open members, each was sent the operation just committed.
OpSentToAllSeen ==
  /\ Len(Log(R)) >= 1 /\ Last(Log(R)).n = commits
  /\ \A x \in Clients : OpenMember(x, R) /\ sent[x] = <<OpMsg(Last(Log(R)))>>

\* C10: a stroke fragment of session A is sent to every other member with an
\* open socket and never back to A.
FragmentSkipsOrigin ==
  [][\A c \in Clients, part \in StrokeParts :
       Recv(c, Message("stroke-part", <<>>, <<part>>))
       => /\ sent'[c] = <<>>
          /\ \A x \in Clients \ {c} :
               OpenMember(x, roomOf[c])
                 => sent'[x] = <<[type |-> "stroke-part", payload |-> part]>>]_vars

\* C10 witness: of three open members one was sent nothing and the two others
\* were sent the same fragment.
FragmentRelayedSeen ==
  \E c \in Clients, part \in StrokeParts :
    /\ \A x \in Clients : OpenMember(x, R)
    /\ sent[c] = <<>>
    /\ \A x \in Clients \ {c} : sent[x] = <<[type |-> "stroke-part", payload |-> part]>>

\* C11: handling a stroke fragment leaves the room as it is: the log and the
\* redo stack are unchanged, and the snapshot getState() gives afterwards is
\* the one it gave before and holds no entry made of the fragment.
FragmentNotStored ==
  [][\A c \in Clients, part \in StrokeParts :
       Recv(c, Message("stroke-part", <<>>, <<part>>))
       => LET r == roomOf[c]
          IN /\ Log(r)' = Log(r)
             /\ Stack(r)' = Stack(r)
             /\ rooms' = rooms
             /\ getState(Room(r))' = getState(Room(r))
             /\ \A i \in 1..Len(getState(Room(r))') : getState(Room(r))'[i] # part]_vars

\* C11 witness: a fragment has just been relayed in a room whose log and redo
\* stack both hold an operation.
FragmentOverLogSeen ==
  /\ Len(Log(R)) = 1 /\ Len(Stack(R)) = 1
  /\ \E x \in Clients, part \in StrokeParts :
       sent[x] = <<[type |-> "stroke-part", payload |-> part]>>

\* C12: an undo handled while the log is empty and a redo handled while the
\* redo stack is empty return null and do nothing: the rooms stay as they are
\* and nobody is sent anything; undos beyond the number of commits leave the
\* log empty.
EmptyUndoRedoNoOp ==
  [][\A c \in Senders :
       /\ (NetUndo(c) /\ Log(roomOf[c]) = <<>>)
            => /\ lastMsg'.ret = <<>>
               /\ rooms' = rooms
               /\ Log(roomOf[c])' = <<>>
               /\ sent' = NoSend
       /\ (NetRedo(c) /\ Stack(roomOf[c]) = <<>>)
            => /\ lastMsg'.ret = <<>>
               /\ rooms' = rooms
               /\ sent' = NoSend]_vars

\* C12 witness: one commit, then two undos in a row; the second found the log
\* empty and did nothing.
ExtraUndoSeen ==
  /\ lastMsg.type = "undo" /\ lastMsg.after = "undo" /\ lastMsg.ret = <<>>
  /\ commits = 1 /\ Log(R) = <<>> /\ Len(Stack(R)) = 1
  /\ sent = NoSend

\* C13: a redo takes one operation off the redo stack and leaves the rest: in
\* a run of k undos that took effect, followed by redos with no commit in
\* between, each of the first k redos takes effect, puts back the operation
\* that stood at its place before the undos, and the k-th leaves the log exactly
\* as it was before the first undo.
UndosThenRedos ==
  [][\A c \in Senders :
       (NetRedo(c) /\ lastMsg.undos > 0 /\ lastMsg.redos < lastMsg.undos)
       => LET k == lastMsg.undos
              i == lastMsg.redos + 1
              base == lastMsg.base
              r == roomOf[c]
          IN /\ lastMsg'.ret # <<>>
             /\ lastMsg'.ret[1].stroke = base[Len(base) - k + i]
             /\ Stack(r)' = Front(Stack(r))
             /\ Len(Stack(r)') >= k - i
             /\ Log(r)' = SubSeq(base, 1, Len(base) - k + i)
             /\ i = k => Log(r)' = base]_vars

\* C13 witness: two commits, two undos in a row, then two redos in a row; the
\* second redo has just restored the log of two operations.
TwoUndosTwoRedosSeen ==
  /\ lastMsg.type = "redo" /\ lastMsg.undos = 2 /\ lastMsg.redos = 2
  /\ Len(lastMsg.base) = 2 /\ Log(R) = lastMsg.base
  /\ Stack(R) = <<>>

\* C14: an undo that takes effect removes exactly one operation from the log
\* and a redo that takes effect puts exactly one back, while two messages go
\* out for it: every member with an open socket is sent exactly the event
\* ('undo' / 'redo') and the 'op' wrapper, once each, both about that one
\* operation; nobody else is sent anything.
OneChangeTwoNotices ==
  [][\A c \in Clients :
       /\ (RecvUndo(c) /\ Log(roomOf[c]) # <<>>)
            => LET r == roomOf[c]
                   info == [targetOpId |-> Last(Log(r)).opId, ts |-> now]
               IN /\ Log(r)' = Front(Log(r))
                  /\ Stack(r)' = Append(Stack(r), Last(Log(r)))
                  /\ \A x \in Clients :
                       sent'[x] = IF OpenMember(x, r)
                                  THEN <<UndoMsg(info), UndoWrapper(info)>> ELSE <<>>
       /\ (RecvRedo(c) /\ Stack(roomOf[c]) # <<>>)
            => LET r == roomOf[c]
                   info == [stroke |-> Last(Stack(r)), ts |-> now]
               IN /\ Log(r)' = Append(Log(r), Last(Stack(r)))
                  /\ Stack(r)' = Front(Stack(r))
                  /\ \A x \in Clients :
                       sent'[x] = IF OpenMember(x, r)
                                  THEN <<RedoMsg(info), RedoWrapper(info)>> ELSE <<>>]_vars

\* C14 witness: two operations were undone and one of them has just been put
\* back; each of three open members was sent the 'redo' event and the wrapper
\* for it, the other operation is still on the redo stack.
RedoAnnouncedSeen ==
  /\ Len(Log(R)) = 1 /\ Len(Stack(R)) = 1
  /\ \A x \in Clients :
       /\ OpenMember(x, R)
       /\ sent[x] = << RedoMsg([stroke |-> Last(Log(R)), ts |-> now]),
                       RedoWrapper([stroke |-> Last(Log(R)), ts |-> now]) >>

\* the ids a user-list message names
Listed(msg) == {msg.payload[x].userId : x \in DOMAIN msg.payload}

\* the user-list message about the members of room r
UserListMsg(r) == [type |-> "user-list", payload |-> userList(Room(r), profile)]

\* C15: when a session joins a room it becomes a member and is sent the user
\* list, which names itself and every other member, and the snapshot of the
\* room's log; every other member with an open socket is sent that same
\* updated user list.
JoinDelivers ==
  [][\A c \in Clients, r \in RoomIds :
       Connect(c, r)
       => /\ Members(r)' = Members(r) \cup {c}
          /\ Log(r)' = Log(r)
          /\ Listed(UserListMsg(r)') = Members(r) \cup {c}
          /\ sent'[c] = << UserListMsg(r)', UserListMsg(r)',
                           [type |-> "state", payload |-> Log(r)] >>
          /\ \A x \in Clients \ {c} :
               sent'[x] = IF OpenMember(x, r) THEN <<UserListMsg(r)'>> ELSE <<>>]_vars

\* C15 witness: a session has just joined a room of two open members whose log
\* holds an operation: it was sent the list of three and the log, the two
\* others the list of three.
JoinSeen ==
  \E c \in Clients, r \in RoomIds :
    /\ Cardinality(Members(r)) = 3
    /\ \A x \in Clients : OpenMember(x, r)
    /\ Len(Log(r)) >= 1
    /\ sent[c] = <<UserListMsg(r), UserListMsg(r), [type |-> "state", payload |-> Log(r)]>>
    /\ \A x \in Clients \ {c} : sent[x] = <<UserListMsg(r)>>

\* C16: a request-state message changes nothing in any room; the requesting
\* session, its socket open, is sent exactly one 'state' message whose payload
\* is the room's log as it is then, in log order, and no other session is
\* sent anything.
SnapshotToRequester ==
  [][\A c \in Clients :
       RecvRequestState(c)
       => /\ rooms' = rooms
          /\ commits' = commits
          /\ readyState[c] = "OPEN"
               => sent'[c] = <<[type |-> "state", payload |-> Log(roomOf[c])]>>
          /\ \A i \in 1..Len(sent'[c]) :
               sent'[c][i] = [type |-> "state", payload |-> Log(roomOf[c])]
          /\ Len(sent'[c]) <= 1
          /\ \A x \in Clients \ {c} : sent'[x] = <<>>]_vars

\* C16 witness: in a room whose log holds two operations a session was sent
\* the snapshot of both while another open member of the room was sent nothing.
SnapshotSeen ==
  \E c \in Clients, r \in RoomIds :
    /\ Len(Log(r)) = 2 /\ Log(r)[1].n = 1 /\ Log(r)[2].n = 2
    /\ OpenMember(c, r)
    /\ sent[c] = <<[type |-> "state", payload |-> Log(r)]>>
    /\ \E x \in Clients \ {c} : OpenMember(x, r) /\ sent[x] = <<>>

\* C17: the close handler runs once per connection, however many transport
\* events its socket reported: it runs for a session that is still a member,
\* removes it, and every remaining member with an open socket is sent exactly
\* one user list without the session and one user-left notice with its id;
\* after it the connection is closed and has no close left to handle.
LeaveOnce ==
  [][\A c \in Clients, r \in RoomIds :
       (Close(c) /\ roomOf[c] = r)
       => /\ c \in Members(r)
          /\ Members(r)' = Members(r) \ {c}
          /\ c \notin Listed(UserListMsg(r)')
          /\ readyState'[c] = "CLOSED"
          /\ sent'[c] = <<>>
          /\ \A x \in Clients \ {c} :
               sent'[x] = IF OpenMember(x, r)
                          THEN << UserListMsg(r)',
                                  [type |-> "user-left", payload |-> [userId |-> c]] >>
                          ELSE <<>>]_vars

\* C17 witness: a socket reported a further transport event while it was going
\* down, then its close was handled: the session is gone and the two members
\* that remain were each sent one user list and one user-left notice.
LeaveAfterSignalsSeen ==
  \E c \in Clients, r \in RoomIds :
    /\ signals[c] >= 1 /\ readyState[c] = "CLOSED"
    /\ Cardinality(Members(r)) = 2 /\ c \notin Members(r)
    /\ \A x \in Members(r) :
         /\ readyState[x] = "OPEN"
         /\ sent[x] = << UserListMsg(r), [type |-> "user-left", payload |-> [userId |-> c]] >>

\* the sessions that joined room r and whose close has not been handled yet
Joined(r) == {c \in Clients : roomOf[c] = r /\ readyState[c] # "CLOSED"}


\* C18: at all times the member set of a room is the set of sessions that
\* joined it and whose connection has not terminated, and every user-list
\* message a handler sends (on a join, a close or a meta message) names exactly
\* the members the recipient's room has when it is sent.
PresenceAccurate ==
  /\ [](\A r \in RoomIds : Members(r) = Joined(r))
  /\ [][\A x \in Clients : \A i \in 1..Len(sent'[x]) :
          sent'[x][i].type = "user-list"
            => \E r \in RoomIds :
                 /\ roomOf'[x] = r
                 /\ sent'[x][i] = UserListMsg(r)'
                 /\ Listed(sent'[x][i]) = Members(r)'
                 /\ Listed(sent'[x][i]) = Joined(r)']_vars

\* C18 witness: a close has just been handled in a room that keeps an open
\* member and a renamed member whose socket is going down; the open one was
\* sent the list of these two, while a session had joined and left before.
PresenceAfterLeaveSeen ==
  \E x, y, z \in Clients, r \in RoomIds :
    /\ Members(r) = {x, y} /\ x # y
    /\ readyState[x] = "OPEN" /\ readyState[y] = "CLOSING" /\ readyState[z] = "CLOSED"
    /\ profile[y].username = "u1"
    /\ sent[x] = << UserListMsg(r), [type |-> "user-left", payload |-> [userId |-> z]] >>
    /\ Listed(sent[x][1]) = {x, y}
    /\ sent[y] = <<>>

\* C19: a member whose socket is not open does not hold up a broadcast: the
\* commit of an op takes effect in the log, and every member with an open
\* socket is still sent the op while the member that is not open is sent
\* nothing.
ClosedRecipientSkipped ==
  [][\A c \in Clients, op \in OpInputs, y \in Clients :
       (/\ commits' = commits + 1
        /\ Recv(c, Message("op", <<op>>, <<>>))
        /\ y \in Members(roomOf[c]) /\ readyState[y] # "OPEN")
       => LET r == roomOf[c]
          IN /\ Len(Log(r)') = Len(Log(r)) + 1
             /\ Last(Log(r)').n = commits + 1
             /\ sent'[y] = <<>>
             /\ \A x \in Clients :
                  OpenMember(x, r) => sent'[x] = <<OpMsg(Last(Log(r)'))>>]_vars

\* C19 witness: an op was committed in a room of three members of which one
\* has a socket that is going down: the two open ones were sent the op.
SkippedRecipientSeen ==
  \E y \in Clients :
    /\ Members(R) = Clients /\ readyState[y] = "CLOSING"
    /\ Len(Log(R)) >= 1 /\ Last(Log(R)).n = commits
    /\ sent[y] = <<>>
    /\ \A x \in Clients \ {y} :
         readyState[x] = "OPEN" /\ sent[x] = <<OpMsg(Last(Log(R)))>>

\* C20: when a broadcast meets a member whose socket is not open, that member
\* is closed and taken out of the room's member set.
ClosedRecipientRemoved ==
  [][\A c \in Clients, y \in Clients :
       (/\ RecvOp(c) \/ RecvUndo(c) \/ RecvRedo(c) \/ RecvStrokePart(c)
        /\ sent' # NoSend
        /\ y \in Members(roomOf[c]) /\ readyState[y] # "OPEN")
       => /\ y \notin Members(roomOf[c])'
          /\ readyState'[y] = "CLOSED"]_vars

\* C21: a frame that does not parse, or whose handling throws (no payload, no
\* op), is dropped: rooms (logs, redo stacks, members) and the sessions' metadata
\* stay as they are, nobody is sent anything, the session stays attached to its
\* room, and an op the same session sends after it is committed and sent to
\* every open member as usual.
BadMessageDropped ==
  [][\A c \in Clients :
       /\ (/\ lastMsg'.client = c
           /\ Throws(lastMsg'.ret)
           /\ FrameRecv(c, lastMsg'.ret)) =>
            /\ rooms' = rooms
            /\ profile' = profile
            /\ sent' = NoSend
            /\ readyState' = readyState
            /\ roomOf' = roomOf
            /\ c \in Members(roomOf[c])'
       /\ \A r \in RoomIds :
            (/\ lastMsg.client = c
             /\ Throws(lastMsg.ret)
             /\ lastMsg'.client = c
             /\ lastMsg'.type = "op"
             /\ ~Throws(lastMsg'.ret)
             /\ roomOf[c] = r
             /\ FrameRecv(c, lastMsg'.ret)) =>
              LET op == Finalized(Tagged(c, lastMsg'.ret[1]))
              IN /\ Log(r)' = Append(Log(r), op)
                 /\ \A x \in Clients : OpenMember(x, r) => sent'[x] = <<OpMsg(op)>>]_vars

\* a session renamed itself, a frame of a session was dropped, and the op the
\* same session sent next is the second of the log and went to its room mate
DroppedThenHandledSeen ==
  \E c, x \in Clients :
    /\ x # c
    /\ lastMsg.client = c
    /\ lastMsg.type = "op"
    /\ ~Throws(lastMsg.ret)
    /\ lastMsg.after = "dropped"
    /\ {c, x} \subseteq Members(R)
    /\ Len(Log(R)) = 2
    /\ sent[x] = <<OpMsg(Last(Log(R)))>>
    /\ profile["c1"].username = "u1"

\* C22: a room name has at most one room object: the first connection that
\* names it creates the room, every later one (also one that follows at once)
\* finds the same object with its log, redo stack and members, no step replaces
\* or removes it, and while it has no members its log and redo stack stay; the
\* next joiner is sent the log as it stood.
OneRoomPerName ==
  [][\A r \in RoomIds :
       /\ HasRoom(r) => (HasRoom(r)' /\ Len(rooms'[r]) = 1 /\ Room(r)'.id = r)
       /\ (HasRoom(r) /\ Members(r) = {}) => (Log(r)' = Log(r) /\ Stack(r)' = Stack(r))
       /\ \A c \in Clients :
            /\ (HasRoom(r) /\ Connect(c, r)) =>
                 /\ Log(r)' = Log(r)
                 /\ Stack(r)' = Stack(r)
                 /\ Members(r)' = Members(r) \cup {c}
                 /\ Last(sent'[c]) = [type |-> "state", payload |-> Log(r)]
            /\ (~HasRoom(r) /\ Connect(c, r)) =>
                 Room(r)' = [createRoom(r) EXCEPT !.clients = {c}]]_vars

\* a session is the only member of a room whose log and redo stack were left by
\* others, and the state it was sent on joining is that log
EmptyRoomRejoinedSeen ==
  \E c \in Clients, r \in RoomIds :
    /\ Members(r) = {c}
    /\ Len(Log(r)) = 1
    /\ Len(Stack(r)) = 1
    /\ Log(r)[1].userId # c
    /\ Len(sent[c]) = 3
    /\ sent[c][3] = [type |-> "state", payload |-> Log(r)]

\* C23: a connection, a close or a message of a session of room r leaves every
\* other room as it is (log, redo stack, members) and sends nothing to a member
\* of another room.
RoomsIsolated ==
  [][\A q \in RoomIds :
       (rooms'[q] # rooms[q] \/ \E x \in Members(q) : sent'[x] # <<>>) =>
         \A r \in RoomIds \ {q}, c \in Clients :
           ~ \/ Connect(c, r)
             \/ roomOf[c] = r /\ Close(c)
             \/ roomOf[c] = r /\ \E t \in LifeTypes : LifeRecv(c, t)]_vars

\* both rooms have a log and an open member, and the op just committed in one
\* of them went to its members and not to the member of the other
OtherRoomSilentSeen ==
  \E c, x \in Clients :
    /\ OpenMember(c, DefaultRoom)
    /\ OpenMember(x, "r1")
    /\ Len(Log(DefaultRoom)) = 1
    /\ Len(Log("r1")) = 1
    /\ sent[c] = <<OpMsg(Last(Log(DefaultRoom)))>>
    /\ Last(Log(DefaultRoom)).n = commits
    /\ sent[x] = <<>>

\* C24: a meta message changes, of all the server holds, only the username and
\* color of its sender, and of these only the ones the payload carries (an
\* absent one keeps its stored value); rooms (logs, redo stacks, members) stay
\* as they are, and every open member of the room, and nobody else, is sent the
\* user list with the new values.
MetaChangesOnlyGiven ==
  [][\A c \in Clients, r \in RoomIds :
       (/\ lastMsg'.client = c
        /\ lastMsg'.type = "meta"
        /\ ~Throws(lastMsg'.ret)
        /\ roomOf[c] = r
        /\ FrameRecv(c, lastMsg'.ret)) =>
         LET p == lastMsg'.ret[1].part[1]
         IN /\ profile'[c].username =
                 IF p.username = NoName THEN profile[c].username ELSE p.username
            /\ profile'[c].color = IF p.color = NoColor THEN profile[c].color ELSE p.color
            /\ profile'[c].userId = profile[c].userId
            /\ \A x \in Clients \ {c} : profile'[x] = profile[x]
            /\ rooms' = rooms
            /\ readyState' = readyState
            /\ \A x \in Clients :
                 sent'[x] = IF OpenMember(x, r) THEN <<UserListMsg(r)'>> ELSE <<>>]_vars

\* a session that had set its color sent a meta message with a username and no
\* color: it holds both, the log is as it was, and its room mate was sent the list
MetaKeptColorSeen ==
  \E x \in Clients \ {"c1"} :
    /\ lastMsg.client = "c1"
    /\ lastMsg.type = "meta"
    /\ lastMsg.ret = <<Message("meta", <<>>, <<[username |-> "u1", color |-> NoColor]>>)>>
    /\ profile["c1"] = [userId |-> "c1", username |-> "u1", color |-> "red"]
    /\ Len(Log(R)) = 1
    /\ OpenMember(x, R)
    /\ sent[x] = <<UserListMsg(R)>>
    /\ sent["c1"] = <<UserListMsg(R)>>

\* C25: the ts of every op in a log is the reading of the server's clock at its
\* commit, and along a log the ts never go down.
CommittedAtByServer ==
  \A r \in RoomIds :
    /\ \A i \in 1..Len(Log(r)) : Log(r)[i].ts = Log(r)[i].at
    /\ \A i, j \in 1..Len(Log(r)) : i < j => Log(r)[i].ts <= Log(r)[j].ts

\* C26: no two live sessions, in one room or in two, hold the same userId, and
\* the user list of a room never has two entries with the same userId.
SessionIdsUnique ==
  /\ \A x, y \in Clients :
       (x # y /\ readyState[x] # "CLOSED" /\ readyState[y] # "CLOSED") =>
         profile[x].userId # profile[y].userId
  /\ \A r \in RoomIds :
       HasRoom(r) =>
         LET list == userList(Room(r), profile)
         IN \A x, y \in DOMAIN list : x # y => list[x].userId # list[y].userId

\* C27: a ping is answered with exactly one pong that carries the ts of the
\* ping, on the socket of the session that sent it; nobody else is sent
\* anything, and rooms and session metadata stay as they are.
PingAnsweredOnce ==
  [][\A c \in Clients :
       (/\ lastMsg'.client = c
        /\ lastMsg'.type = "ping"
        /\ ~Throws(lastMsg'.ret)
        /\ readyState[c] = "OPEN"
        /\ FrameRecv(c, lastMsg'.ret)) =>
         /\ sent'[c] = <<[type |-> "pong", payload |-> [ts |-> lastMsg'.ret[1].part[1].ts]]>>
         /\ \A x \in Clients \ {c} : sent'[x] = <<>>
         /\ rooms' = rooms
         /\ profile' = profile
         /\ readyState' = readyState]_vars

\* a session of a room with a log and a second open member pinged: it holds
\* the pong with its ts and the other member was sent nothing
PongSeen ==
  \E c, x \in Clients :
    /\ x # c
    /\ lastMsg.client = c
    /\ lastMsg.type = "ping"
    /\ OpenMember(c, R)
    /\ OpenMember(x, R)
    /\ Len(Log(R)) = 1
    /\ sent[c] = <<[type |-> "pong", payload |-> [ts |-> 7]]>>
    /\ sent[x] = <<>>

OpsOutliveAuthor ==
  [][\A c \in Clients, r \in RoomIds :
       /\ (Close(c) \/ Connect(c, r)) =>
            \A q \in RoomIds : Log(q)' = Log(q) /\ Stack(q)' = Stack(q)
       /\ Connect(c, r) => Last(sent'[c]).payload = Log(r)
       /\ (/\ roomOf[c] = r
           /\ Log(r) # <<>>
           /\ Recv(c, Message("undo", <<>>, <<>>))) =>
            /\ Log(r)' = Front(Log(r))
            /\ Stack(r)' = Append(Stack(r), Last(Log(r)))
       /\ (/\ roomOf[c] = r
           /\ Stack(r) # <<>>
           /\ Recv(c, Message("redo", <<>>, <<>>))) =>
            /\ Stack(r)' = Front(Stack(r))
            /\ Log(r)' = Append(Log(r), Last(Stack(r)))]_vars

\* the author of an op has gone (its socket is closed, it is no member), and
\* another member has just undone that op: it is on top of the redo stack and
\* the undo went out with its id
DepartedOpUndoneSeen ==
  \E c, x \in Clients :
    /\ readyState[c] = "CLOSED"
    /\ c \notin Members(R)
    /\ OpenMember(x, R)
    /\ Stack(R) # <<>>
    /\ Last(Stack(R)).userId = c
    /\ Len(sent[x]) = 2
    /\ sent[x][1] = UndoMsg([targetOpId |-> Last(Stack(R)).opId, ts |-> now])

\* the ids of a list of ops, in order
IdsOf(list) == [i \in 1..Len(list) |-> list[i].opId]

\* C30: for every session that has joined and stayed, the state it was sent at
\* the join followed by every op message sent to it since, replayed in order
\* (append, remove by targetOpId, append again), gives the ids of the server's
\* log in the order of the log.
ReplayMatchesLog ==
  \A c \in Clients : OpenMember(c, R) => IdsOf(appliedOps[c]) = IdsOf(Log(R))

\* what the canvas takes for the notice of an undo: an 'undo' event, or an
\* 'op' message whose op has kind undo; and the op id the notice names
IsUndoNotice(msg) ==
  msg.type = "undo" \/ (msg.type = "op" /\ msg.payload.op.type = "undo")
NoticeTarget(msg) ==
  IF msg.type = "undo" THEN msg.payload.targetOpId ELSE msg.payload.op.targetOpId

\* the same for a redo, and the stroke the notice carries
IsRedoNotice(msg) ==
  msg.type = "redo" \/ (msg.type = "op" /\ msg.payload.op.type = "redo")
NoticeStroke(msg) ==
  IF msg.type = "redo" THEN msg.payload.stroke ELSE msg.payload.op.stroke

\* C31: every undo notice a member is sent (an 'undo' event or an 'op' message
\* whose op has kind undo) comes from a step that took the op it names off the
\* end of the server's log, and every redo notice from a step that put the
\* stroke it carries back from the redo stack: no message of a client makes
\* members receive a notice without that change of the log.
NoticesMirrorLog ==
  [][\A x \in Clients : \A i \in 1..Len(sent'[x]) :
       LET msg == sent'[x][i]
       IN /\ IsUndoNotice(msg) =>
               /\ Log(R) # <<>>
               /\ Last(Log(R)).opId = NoticeTarget(msg)
               /\ Log(R)' = Front(Log(R))
          /\ IsRedoNotice(msg) =>
               /\ Stack(R) # <<>>
               /\ Last(Stack(R)) = NoticeStroke(msg)
               /\ Log(R)' = Append(Log(R), NoticeStroke(msg))]_vars

\* C32: in the local list of every client each op id occurs at most once,
\* whatever it committed itself and whatever fragments, op messages, undo and
\* redo notices and snapshots it received: the author's own copy and the
\* echoed copy are one entry, a redo announced twice is applied once.
LocalIdsUnique ==
  \A c \in Clients :
    \A i, j \in 1..Len(appliedOps[c]) :
      i # j => appliedOps[c][i].opId # appliedOps[c][j].opId

\* the quiet states of the drawing view: nothing is on its way to the server
\* (what the server sent is handled by the canvases in the same step) and no
\* member of the room draws a stroke
Quiet ==
  /\ \A c \in Clients : inbox[c] = <<>>
  /\ \A c \in Members(R) : currentStroke[c] = <<>>

\* the op ids of a list, as a set
IdSet(list) == {list[i].opId : i \in 1..Len(list)}

\* C33: whenever everything sent has been delivered and no participant has a
\* stroke in progress, the set of op ids in the local list of every connected
\* client is the set of op ids of the server's log, also after another
\* participant went away in the middle of a stroke.
ViewsConverge ==
  Quiet => \A c \in Clients : OpenMember(c, R) => IdSet(appliedOps[c]) = IdSet(Log(R))

\* how many entries of a list have that id
CountId(list, id) == Cardinality({i \in 1..Len(list) : list[i].opId = id})

Reverse(s) == [i \in 1..Len(s) |-> s[Len(s) + 1 - i]]

\* the log of room r followed by its redo stack read from top to bottom
Timeline(r) == Log(r) \o Reverse(Stack(r))

\* C35: undo and redo only move ops between the log and the redo stack: a step
\* of the server either leaves the log followed by the stack (read from top to
\* bottom) as it was, moving at most one op across, or it is a commit, which
\* appends one op to the log and empties the stack; so no op is lost, made up
\* or doubled, and no committed op is in the log and on the stack at once.
UndoRedoOnlyMove ==
  [][\A r \in RoomIds :
       /\ \/ /\ Timeline(r)' = Timeline(r)
             /\ Len(Log(r)') - Len(Log(r)) \in {-1, 0, 1}
          \/ /\ commits' = commits + 1
             /\ Log(r)' # <<>>
             /\ Front(Log(r)') = Log(r)
             /\ Stack(r)' = <<>>
       /\ \A i, j \in 1..Len(Timeline(r)') :
            i # j => Timeline(r)'[i].n # Timeline(r)'[j].n]_vars

\* a redo has just put an op back while another undone op is still on the
\* stack and an older op is in the log below the one put back
UndoRedoMovedSeen ==
  /\ lastMsg.type = "redo"
  /\ lastMsg.ret # <<>>
  /\ Stack(R) # <<>>
  /\ Len(Log(R)) >= 1
  /\ Last(Log(R)) = lastMsg.ret[1].stroke
  /\ Len(Timeline(R)) >= 2

====
